---- MODULE Spec2Model ----
(***************************************************************************)
(* Model of the sharded buffer cache of kernel/bio.c: NBUF buffers spread  *)
(* over NBUCKET hash buckets, one spinlock per bucket, one sleeplock per   *)
(* buffer, LRU victim selection by lastuse ticks and cross-bucket steal.   *)
(* Each process is a kernel thread calling bread, bwrite, brelse, bpin and *)
(* bunpin; a step of the model is one lock-delimited step of a handler.    *)
(***************************************************************************)
EXTENDS Integers, Sequences, FiniteSets, TLC

\* ---- sizes of the model ------------------------------------------------
NBUF == 2
NBUCKET == 2
NPROC == 2
MaxTicks == 1
MaxPin == 1
MaxCalls == 5

Devs == {0, 1}
Blocks == {0, 1}
Bufs == 1..NBUF
Buckets == 0..(NBUCKET - 1)
Procs == 1..NPROC

VARIABLES
  dev,       \* b->dev
  blockno,   \* b->blockno
  valid,     \* b->valid
  refcnt,    \* b->refcnt (a uint; it stays far from the wrap-around)
  lastuse,   \* b->lastuse
  locked,    \* b->lock.locked
  lkpid,     \* b->lock.pid
  buckets,   \* bcache.buckets[i]: the list from head.next, in order
  lks,       \* bcache.lks[i]: the holder of the spinlock, 0 when free
  ticks,     \* the global tick counter
  pc,        \* position of each process
  rdev,      \* bget's argument dev
  rblk,      \* bget's argument blockno
  bid,       \* the local id
  si,        \* the local i of the steal loop
  vb,        \* the local b / victm, 0 when null
  via,       \* the path by which bget reached b: "hit", "evict" or "steal"
  got,       \* the buffers bread returned to the process, not yet brelse'd
  pins,      \* the bpin calls of the process not yet bunpin'ed, per buffer
  nreads,    \* device reads into the buffer since its last bufinit
  ncalls     \* calls of the interface made so far

bufvars == <<dev, blockno, valid, refcnt, lastuse>>
lockvars == <<locked, lkpid>>
locals == <<rdev, rblk, bid, si, vb, via>>
vars == <<dev, blockno, valid, refcnt, lastuse, locked, lkpid, buckets, lks,
          ticks, pc, rdev, rblk, bid, si, vb, via, got, pins, nreads,
          ncalls>>

\* ---- pure helpers ------------------------------------------------------
myhash(x) == x % NBUCKET

\* the list built by binit: each buffer is pushed at the head of bucket 0
RECURSIVE PushAll(_, _)
PushAll(k, s) == IF k > NBUF THEN s ELSE PushAll(k + 1, <<k>> \o s)

\* first buffer of the list with the identity (d, n), 0 when none
RECURSIVE Lookup(_, _, _, _)
Lookup_miss(s, k, d, n) == 0
Lookup_nodev(s, k, d, n) ==
  IF k > Len(s) THEN 0
  ELSE IF blockno[s[k]] = n THEN s[k]
  ELSE Lookup(s, k + 1, d, n)
Lookup(s, k, d, n) ==
  IF k > Len(s) THEN 0
  ELSE IF dev[s[k]] = d /\ blockno[s[k]] = n THEN s[k]
  ELSE Lookup(s, k + 1, d, n)

\* the condition under which the scan takes b as the new victim
Evictable_anyref(b, minticks) == lastuse[b] <= minticks
Evictable_strict(b, minticks) == refcnt[b] = 0 /\ lastuse[b] < minticks
Evictable(b, minticks) == refcnt[b] = 0 /\ lastuse[b] <= minticks

\* the victim loop: minticks starts at ticks, the last buffer to pass wins
RECURSIVE ScanVictim(_, _, _, _)
ScanVictim_nomin(s, k, minticks, victm) ==
  IF k > Len(s) THEN victm
  ELSE IF Evictable(s[k], minticks)
       THEN ScanVictim(s, k + 1, minticks, s[k])
       ELSE ScanVictim(s, k + 1, minticks, victm)
ScanVictim(s, k, minticks, victm) ==
  IF k > Len(s) THEN victm
  ELSE IF Evictable(s[k], minticks)
       THEN ScanVictim(s, k + 1, lastuse[s[k]], s[k])
       ELSE ScanVictim(s, k + 1, minticks, victm)

Victim(s) == ScanVictim(s, 1, ticks, 0)

Remove_none(s, b) == s
Remove(s, b) == SelectSeq(s, LAMBDA x : x # b)

\* next index of the steal loop: the bucket id itself is skipped
SkipId(j, id) == IF j = id THEN j + 1 ELSE j

holdingsleep(b, p) == locked[b] /\ lkpid[b] = p

\* the check that opens bwrite and brelse: if(!holdingsleep(&b->lock)) panic
NotHolding_anyone(b, p) == ~locked[b]
NotHolding(b, p) == ~holdingsleep(b, p)

\* the test of bread that decides the device read: if(!b->valid)
NeedsRead_always(b) == TRUE
NeedsRead(b) == ~valid[b]

\* b->refcnt++ of bpin
bpin_noinc(r) == r
bpin_refcnt(r) == r + 1

Members(j) == {buckets[j][k] : k \in 1..Len(buckets[j])}

\* the locals of a call are dead once it has returned or panicked
Leave(p, to) ==
  /\ pc' = [pc EXCEPT ![p] = to]
  /\ rdev' = [rdev EXCEPT ![p] = 0]
  /\ rblk' = [rblk EXCEPT ![p] = 0]
  /\ bid' = [bid EXCEPT ![p] = 0]
  /\ si' = [si EXCEPT ![p] = 0]
  /\ vb' = [vb EXCEPT ![p] = 0]
  /\ via' = [via EXCEPT ![p] = ""]

\* a process enters the interface; the model follows MaxCalls calls
Call ==
  /\ ncalls < MaxCalls
  /\ ncalls' = ncalls + 1

\* ---- initial state: after binit ----------------------------------------
Init ==
  /\ dev = [b \in Bufs |-> 0]
  /\ blockno = [b \in Bufs |-> 0]
  /\ valid = [b \in Bufs |-> FALSE]
  /\ refcnt = [b \in Bufs |-> 0]
  /\ lastuse = [b \in Bufs |-> 0]
  /\ locked = [b \in Bufs |-> FALSE]
  /\ lkpid = [b \in Bufs |-> 0]
  /\ buckets = [j \in Buckets |-> IF j = 0 THEN PushAll(1, <<>>) ELSE <<>>]
  /\ lks = [j \in Buckets |-> 0]
  /\ ticks = 0
  /\ pc = [p \in Procs |-> "idle"]
  /\ rdev = [p \in Procs |-> 0]
  /\ rblk = [p \in Procs |-> 0]
  /\ bid = [p \in Procs |-> 0]
  /\ si = [p \in Procs |-> 0]
  /\ vb = [p \in Procs |-> 0]
  /\ via = [p \in Procs |-> ""]
  /\ got = [p \in Procs |-> {}]
  /\ pins = [p \in Procs |-> [b \in Bufs |-> 0]]
  /\ nreads = [b \in Bufs |-> 0]
  /\ ncalls = 0

\* ---- bread / bget ------------------------------------------------------
\* bread calls bget, which hashes the block and takes the bucket's lock.
\* A caller does not ask for a block it already holds locked.
Bread(p, d, n) ==
  /\ pc[p] = "idle"
  /\ Call
  /\ \A g \in got[p] : ~(g.dev = d /\ g.blockno = n)
  /\ lks[myhash(n)] = 0
  /\ lks' = [lks EXCEPT ![myhash(n)] = p]
  /\ rdev' = [rdev EXCEPT ![p] = d]
  /\ rblk' = [rblk EXCEPT ![p] = n]
  /\ bid' = [bid EXCEPT ![p] = myhash(n)]
  /\ pc' = [pc EXCEPT ![p] = "bget_scan"]
  /\ UNCHANGED <<bufvars, lockvars, buckets, ticks, si, vb, via, got, pins,
                 nreads>>

\* where the steal loop goes after index j: the next bucket or the panic
StealPc(j) == IF j >= NBUCKET THEN "bget_nobuf" ELSE "steal_acq"

\* the cached-block loop and the victim loop over the bucket id
BgetScan(p) ==
  /\ pc[p] = "bget_scan"
  /\ LET id == bid[p]
         hit == Lookup(buckets[id], 1, rdev[p], rblk[p])
         victm == Victim(buckets[id])
     IN IF hit # 0
        THEN /\ refcnt' = [refcnt EXCEPT ![hit] = @ + 1]
             /\ lks' = [lks EXCEPT ![id] = 0]
             /\ vb' = [vb EXCEPT ![p] = hit]
             /\ via' = [via EXCEPT ![p] = "hit"]
             /\ pc' = [pc EXCEPT ![p] = "sleep"]
             /\ UNCHANGED si
        ELSE IF victm # 0
        THEN /\ vb' = [vb EXCEPT ![p] = victm]
             /\ pc' = [pc EXCEPT ![p] = "bget_evict"]
             /\ UNCHANGED <<refcnt, lks, si, via>>
        ELSE /\ si' = [si EXCEPT ![p] = SkipId(0, id)]
             /\ pc' = [pc EXCEPT ![p] = StealPc(SkipId(0, id))]
             /\ UNCHANGED <<refcnt, lks, vb, via>>
  /\ UNCHANGED <<dev, blockno, valid, lastuse, lockvars, buckets, ticks,
                 rdev, rblk, bid, got, pins, nreads>>
  /\ UNCHANGED ncalls

\* bufinit(victm, dev, blockno) of the local eviction, then the release
BgetEvict(p) ==
  /\ pc[p] = "bget_evict"
  /\ LET b == vb[p] IN
       /\ dev' = [dev EXCEPT ![b] = rdev[p]]
       /\ blockno' = [blockno EXCEPT ![b] = rblk[p]]
       /\ valid' = [valid EXCEPT ![b] = FALSE]
       /\ refcnt' = [refcnt EXCEPT ![b] = 1]
       /\ nreads' = [nreads EXCEPT ![b] = 0]
  /\ lks' = [lks EXCEPT ![bid[p]] = 0]
  /\ pc' = [pc EXCEPT ![p] = "sleep"]
  /\ via' = [via EXCEPT ![p] = "evict"]
  /\ UNCHANGED <<lastuse, lockvars, buckets, ticks, rdev, rblk, bid, si, vb,
                 got, pins>>
  /\ UNCHANGED ncalls

\* acquire(&bcache.lks[i]) in the steal loop, with lks[id] still held
StealAcq(p) ==
  /\ pc[p] = "steal_acq"
  /\ lks[si[p]] = 0
  /\ lks' = [lks EXCEPT ![si[p]] = p]
  /\ pc' = [pc EXCEPT ![p] = "steal_scan"]
  /\ UNCHANGED <<bufvars, lockvars, buckets, ticks, locals, got, pins, nreads>>
  /\ UNCHANGED ncalls

\* the victim loop over bucket i
StealScan(p) ==
  /\ pc[p] = "steal_scan"
  /\ LET i == si[p]
         victm == Victim(buckets[i])
     IN IF victm = 0
        THEN /\ lks' = [lks EXCEPT ![i] = 0]
             /\ si' = [si EXCEPT ![p] = SkipId(i + 1, bid[p])]
             /\ pc' = [pc EXCEPT ![p] = StealPc(SkipId(i + 1, bid[p]))]
             /\ UNCHANGED vb
        ELSE /\ vb' = [vb EXCEPT ![p] = victm]
             /\ pc' = [pc EXCEPT ![p] = "steal_take"]
             /\ UNCHANGED <<lks, si>>
  /\ UNCHANGED <<bufvars, lockvars, buckets, ticks, rdev, rblk, bid, via,
                 got, pins, nreads>>
  /\ UNCHANGED ncalls

\* bufinit, unlink from bucket i, release of lks[i]
StealTake(p) ==
  /\ pc[p] = "steal_take"
  /\ LET b == vb[p] IN
       /\ dev' = [dev EXCEPT ![b] = rdev[p]]
       /\ blockno' = [blockno EXCEPT ![b] = rblk[p]]
       /\ valid' = [valid EXCEPT ![b] = FALSE]
       /\ refcnt' = [refcnt EXCEPT ![b] = 1]
       /\ nreads' = [nreads EXCEPT ![b] = 0]
       /\ buckets' = [buckets EXCEPT ![si[p]] = Remove(@, b)]
  /\ lks' = [lks EXCEPT ![si[p]] = 0]
  /\ pc' = [pc EXCEPT ![p] = "steal_attach"]
  /\ via' = [via EXCEPT ![p] = "steal"]
  /\ UNCHANGED <<lastuse, lockvars, ticks, rdev, rblk, bid, si, vb, got, pins>>
  /\ UNCHANGED ncalls

\* link at the head of bucket id, release of lks[id]
StealAttach_keep(p) ==
  /\ pc[p] = "steal_attach"
  /\ buckets' = [buckets EXCEPT ![bid[p]] = <<vb[p]>> \o @]
  /\ pc' = [pc EXCEPT ![p] = "sleep"]
  /\ UNCHANGED <<bufvars, lockvars, lks, ticks, locals, got, pins, nreads>>
  /\ UNCHANGED ncalls

StealAttach_wrong(p) ==
  /\ pc[p] = "steal_attach"
  /\ buckets' = [buckets EXCEPT ![si[p]] = <<vb[p]>> \o @]
  /\ lks' = [lks EXCEPT ![bid[p]] = 0]
  /\ pc' = [pc EXCEPT ![p] = "sleep"]
  /\ UNCHANGED <<bufvars, lockvars, ticks, locals, got, pins, nreads>>
  /\ UNCHANGED ncalls

StealAttach(p) ==
  /\ pc[p] = "steal_attach"
  /\ buckets' = [buckets EXCEPT ![bid[p]] = <<vb[p]>> \o @]
  /\ lks' = [lks EXCEPT ![bid[p]] = 0]
  /\ pc' = [pc EXCEPT ![p] = "sleep"]
  /\ UNCHANGED <<bufvars, lockvars, ticks, locals, got, pins, nreads>>
  /\ UNCHANGED ncalls

\* the loop found nothing: release(&bcache.lks[id]); panic("bget: no buf")
BgetNoBuf(p) ==
  /\ pc[p] = "bget_nobuf"
  /\ lks' = [lks EXCEPT ![bid[p]] = 0]
  /\ Leave(p, "panic_bget")
  /\ UNCHANGED <<bufvars, lockvars, buckets, ticks, got, pins, nreads>>
  /\ UNCHANGED ncalls

\* acquiresleep(&b->lock): waits until the lock is free; bget returns b
AcquireSleep(p) ==
  /\ pc[p] = "sleep"
  /\ ~locked[vb[p]]
  /\ locked' = [locked EXCEPT ![vb[p]] = TRUE]
  /\ lkpid' = [lkpid EXCEPT ![vb[p]] = p]
  /\ got' = [got EXCEPT ![p] =
               @ \cup {[b |-> vb[p], dev |-> rdev[p], blockno |-> rblk[p]]}]
  /\ pc' = [pc EXCEPT ![p] = "bread_valid"]
  /\ UNCHANGED <<bufvars, buckets, lks, ticks, locals, pins, nreads>>
  /\ UNCHANGED ncalls

\* if(!b->valid) of bread
BreadValid(p) ==
  /\ pc[p] = "bread_valid"
  /\ IF NeedsRead(vb[p])
     THEN /\ pc' = [pc EXCEPT ![p] = "diskr"]
          /\ UNCHANGED locals
     ELSE Leave(p, "idle")
  /\ UNCHANGED <<bufvars, lockvars, buckets, lks, ticks, got, pins, nreads>>
  /\ UNCHANGED ncalls

\* virtio_disk_rw(b, 0); b->valid = 1
DiskRead(p) ==
  /\ pc[p] = "diskr"
  /\ nreads' = [nreads EXCEPT ![vb[p]] = @ + 1]
  /\ valid' = [valid EXCEPT ![vb[p]] = TRUE]
  /\ Leave(p, "idle")
  /\ UNCHANGED <<dev, blockno, refcnt, lastuse, lockvars, buckets, lks, ticks,
                 got, pins>>
  /\ UNCHANGED ncalls

\* ---- bwrite ------------------------------------------------------------
Bwrite(p, b) ==
  /\ pc[p] = "idle"
  /\ Call
  /\ vb' = [vb EXCEPT ![p] = b]
  /\ IF NotHolding(b, p)
     THEN pc' = [pc EXCEPT ![p] = "panic_bwrite"]
     ELSE pc' = [pc EXCEPT ![p] = "diskw"]
  /\ UNCHANGED <<bufvars, lockvars, buckets, lks, ticks, rdev, rblk, bid, si,
                 via, got, pins, nreads>>

\* virtio_disk_rw(b, 1) completes
DiskWrite(p) ==
  /\ pc[p] = "diskw"
  /\ Leave(p, "idle")
  /\ UNCHANGED <<bufvars, lockvars, buckets, lks, ticks, got, pins, nreads>>
  /\ UNCHANGED ncalls

\* ---- brelse ------------------------------------------------------------
\* the holdingsleep check, releasesleep and the hash of b->blockno
Brelse(p, b) ==
  /\ pc[p] = "idle"
  /\ Call
  /\ vb' = [vb EXCEPT ![p] = b]
  /\ IF NotHolding(b, p)
     THEN /\ pc' = [pc EXCEPT ![p] = "panic_brelse"]
          /\ UNCHANGED <<lockvars, got, bid>>
     ELSE /\ locked' = [locked EXCEPT ![b] = FALSE]
          /\ lkpid' = [lkpid EXCEPT ![b] = 0]
          /\ got' = [got EXCEPT ![p] = {g \in @ : g.b # b}]
          /\ bid' = [bid EXCEPT ![p] = myhash(blockno[b])]
          /\ pc' = [pc EXCEPT ![p] = "brelse_acq"]
  /\ UNCHANGED <<bufvars, buckets, lks, ticks, rdev, rblk, si, via, pins,
                 nreads>>

\* acquire(&bcache.lks[id]) of brelse
BrelseAcq(p) ==
  /\ pc[p] = "brelse_acq"
  /\ lks[bid[p]] = 0
  /\ lks' = [lks EXCEPT ![bid[p]] = p]
  /\ pc' = [pc EXCEPT ![p] = "brelse_dec"]
  /\ UNCHANGED <<bufvars, lockvars, buckets, ticks, locals, got, pins, nreads>>
  /\ UNCHANGED ncalls

\* b->refcnt--; the stamp when it reaches 0; release
BrelseDec(p) ==
  /\ pc[p] = "brelse_dec"
  /\ LET b == vb[p]
         r == refcnt[b] - 1
     IN /\ refcnt' = [refcnt EXCEPT ![b] = r]
        /\ lastuse' = [lastuse EXCEPT ![b] = IF r = 0 THEN ticks ELSE @]
  /\ lks' = [lks EXCEPT ![bid[p]] = 0]
  /\ Leave(p, "idle")
  /\ UNCHANGED <<dev, blockno, valid, lockvars, buckets, ticks, got, pins,
                 nreads>>
  /\ UNCHANGED ncalls

\* ---- bpin / bunpin -----------------------------------------------------
\* A caller pins a buffer it holds a reference on (locked by it, or pinned
\* by it), and unpins a buffer it pinned.
Bpin(p, b) ==
  /\ pc[p] = "idle"
  /\ Call
  /\ (\E g \in got[p] : g.b = b) \/ pins[p][b] > 0
  /\ pins[p][b] < MaxPin
  /\ vb' = [vb EXCEPT ![p] = b]
  /\ bid' = [bid EXCEPT ![p] = myhash(blockno[b])]
  /\ pc' = [pc EXCEPT ![p] = "bpin_acq"]
  /\ UNCHANGED <<bufvars, lockvars, buckets, lks, ticks, rdev, rblk, si, via,
                 got, pins, nreads>>

\* acquire(&bcache.lks[id]) of bpin
BpinAcq(p) ==
  /\ pc[p] = "bpin_acq"
  /\ lks[bid[p]] = 0
  /\ lks' = [lks EXCEPT ![bid[p]] = p]
  /\ pc' = [pc EXCEPT ![p] = "bpin_inc"]
  /\ UNCHANGED <<bufvars, lockvars, buckets, ticks, locals, got, pins, nreads>>
  /\ UNCHANGED ncalls

BpinInc(p) ==
  /\ pc[p] = "bpin_inc"
  /\ refcnt' = [refcnt EXCEPT ![vb[p]] = bpin_refcnt(@)]
  /\ pins' = [pins EXCEPT ![p][vb[p]] = @ + 1]
  /\ lks' = [lks EXCEPT ![bid[p]] = 0]
  /\ Leave(p, "idle")
  /\ UNCHANGED <<dev, blockno, valid, lastuse, lockvars, buckets, ticks, got,
                 nreads>>
  /\ UNCHANGED ncalls

Bunpin(p, b) ==
  /\ pc[p] = "idle"
  /\ Call
  /\ pins[p][b] > 0
  /\ vb' = [vb EXCEPT ![p] = b]
  /\ bid' = [bid EXCEPT ![p] = myhash(blockno[b])]
  /\ pc' = [pc EXCEPT ![p] = "bunpin_acq"]
  /\ UNCHANGED <<bufvars, lockvars, buckets, lks, ticks, rdev, rblk, si, via,
                 got, pins, nreads>>

\* acquire(&bcache.lks[id]) of bunpin
BunpinAcq(p) ==
  /\ pc[p] = "bunpin_acq"
  /\ lks[bid[p]] = 0
  /\ lks' = [lks EXCEPT ![bid[p]] = p]
  /\ pc' = [pc EXCEPT ![p] = "bunpin_dec"]
  /\ UNCHANGED <<bufvars, lockvars, buckets, ticks, locals, got, pins, nreads>>
  /\ UNCHANGED ncalls

BunpinDec(p) ==
  /\ pc[p] = "bunpin_dec"
  /\ refcnt' = [refcnt EXCEPT ![vb[p]] = @ - 1]
  /\ pins' = [pins EXCEPT ![p][vb[p]] = @ - 1]
  /\ lks' = [lks EXCEPT ![bid[p]] = 0]
  /\ Leave(p, "idle")
  /\ UNCHANGED <<dev, blockno, valid, lastuse, lockvars, buckets, ticks, got,
                 nreads>>
  /\ UNCHANGED ncalls

\* ---- the clock ---------------------------------------------------------
Tick ==
  /\ ticks < MaxTicks
  /\ ticks' = ticks + 1
  /\ UNCHANGED <<bufvars, lockvars, buckets, lks, pc, locals, got, pins, nreads>>
  /\ UNCHANGED ncalls

\* A process that has panicked takes no further step; the other processes
\* run on, as the other harts do until they next use the console.
Next ==
  \/ \E p \in Procs, d \in Devs, n \in Blocks : Bread(p, d, n)
  \/ \E p \in Procs : BgetScan(p)
  \/ \E p \in Procs : BgetEvict(p)
  \/ \E p \in Procs : StealAcq(p)
  \/ \E p \in Procs : StealScan(p)
  \/ \E p \in Procs : StealTake(p)
  \/ \E p \in Procs : StealAttach(p)
  \/ \E p \in Procs : BgetNoBuf(p)
  \/ \E p \in Procs : AcquireSleep(p)
  \/ \E p \in Procs : BreadValid(p)
  \/ \E p \in Procs : DiskRead(p)
  \/ \E p \in Procs, b \in Bufs : Bwrite(p, b)
  \/ \E p \in Procs : DiskWrite(p)
  \/ \E p \in Procs, b \in Bufs : Brelse(p, b)
  \/ \E p \in Procs : BrelseAcq(p)
  \/ \E p \in Procs : BrelseDec(p)
  \/ \E p \in Procs, b \in Bufs : Bpin(p, b)
  \/ \E p \in Procs : BpinAcq(p)
  \/ \E p \in Procs : BpinInc(p)
  \/ \E p \in Procs, b \in Bufs : Bunpin(p, b)
  \/ \E p \in Procs : BunpinAcq(p)
  \/ \E p \in Procs : BunpinDec(p)
  \/ Tick

Spec == Init /\ [][Next]_vars

\* ---- vocabulary of the properties -------------------------------------
TypeOK ==
  /\ \A b \in Bufs : refcnt[b] \in 0..(NPROC * (MaxPin + 1))
  /\ \A b \in Bufs : lastuse[b] <= ticks

InBget == {"bget_scan", "bget_evict", "steal_acq", "steal_scan", "steal_take",
           "steal_attach", "bget_nobuf", "sleep"}

\* the processes bread has returned b to and that have not called brelse
Holders(b) == {p \in Procs : \E g \in got[p] : g.b = b}

SameId(b1, b2) == dev[b1] = dev[b2] /\ blockno[b1] = blockno[b2]

\* p is inside bget(d, n)
Asking(p, d, n) == pc[p] \in InBget /\ rdev[p] = d /\ rblk[p] = n

Stepped(p) == pc'[p] # pc[p]

\* C1: a buffer is held by at most one process; while a process holds the
\* buffer of an identity, any other process inside bget for that identity
\* has taken the hit path to the same buffer and is still waiting in
\* acquiresleep, and no other process has been returned that identity.
SingleOwner ==
  /\ \A b \in Bufs : Cardinality(Holders(b)) <= 1
  /\ \A p \in Procs : \A q \in Procs \ {p} : \A g \in got[p] :
       /\ \A h \in got[q] : ~(h.dev = g.dev /\ h.blockno = g.blockno)
       /\ Asking(q, g.dev, g.blockno) =>
            /\ pc[q] \in {"bget_scan", "sleep"}
            /\ pc[q] = "sleep" => vb[q] = g.b

SingleOwnerWitness ==
  \E p \in Procs : \E q \in Procs \ {p} : \E g \in got[p] :
    /\ pc[q] = "sleep"
    /\ Asking(q, g.dev, g.blockno)
    /\ vb[q] = g.b
    /\ locked[g.b]

\* C2: no two distinct buffers are valid with the same (dev, blockno).
NoDuplication ==
  \A b1 \in Bufs : \A b2 \in Bufs \ {b1} :
    ~(valid[b1] /\ valid[b2] /\ SameId(b1, b2))

NoDuplicationWitness ==
  \E b1 \in Bufs : \E b2 \in Bufs \ {b1} :
    /\ valid[b1] /\ valid[b2]
    /\ refcnt[b1] = 0 /\ refcnt[b2] = 0
    /\ ncalls >= 4

\* C3: a buffer selected as victim has refcnt 0 from its selection to the
\* bufinit that overwrites it, and every step that changes a buffer's dev
\* or blockno or clears its valid flag finds it with refcnt 0.
EvictionSafety ==
  [][ /\ \A p \in Procs :
           pc[p] \in {"bget_evict", "steal_take"} => refcnt[vb[p]] = 0
      /\ \A b \in Bufs :
           (dev'[b] # dev[b] \/ blockno'[b] # blockno[b]
              \/ (valid[b] /\ ~valid'[b]))
           => refcnt[b] = 0 ]_vars

EvictionSafetyWitness ==
  \E p \in Procs, b \in Bufs :
    /\ pc[p] = "steal_take"
    /\ valid[vb[p]]
    /\ b # vb[p]
    /\ refcnt[b] > 0

\* the spinlock p is spinning on, -1 when it is not spinning
WaitLock(p) ==
  IF pc[p] = "steal_acq" THEN si[p]
  ELSE IF pc[p] \in {"brelse_acq", "bpin_acq", "bunpin_acq"} THEN bid[p]
  ELSE -1

\* C4: there is no set of processes each spinning on a bucket lock that
\* another process of the set holds.
NoLockCycle ==
  ~ \E S \in (SUBSET Procs) \ {{}} :
      \A p \in S : /\ WaitLock(p) # -1
                   /\ lks[WaitLock(p)] \in S \ {p}

Exhausted == \A b \in Bufs : refcnt[b] > 0

NotCached(d, n) == \A b \in Bufs : ~(dev[b] = d /\ blockno[b] = n)

\* p is the only process inside the interface
Alone(p) == \A q \in Procs \ {p} : pc[q] = "idle"

\* C5: while every buffer has refcnt > 0, a bget for an identity no buffer
\* carries changes no buffer field and no bucket, never reaches
\* acquiresleep, and ends its scan in panic("bget: no buf"); while it is
\* the only call in progress, no bucket lock it needs is taken.
BoundedCapacity ==
  [][ \A p \in Procs :
        (/\ Exhausted
         /\ pc[p] \in InBget \ {"sleep"}
         /\ NotCached(rdev[p], rblk[p]))
        => /\ (pc[p] = "steal_acq" /\ Alone(p)) => lks[si[p]] = 0
           /\ Stepped(p) =>
                /\ UNCHANGED <<bufvars, buckets, got>>
                /\ pc'[p] \in {"steal_acq", "steal_scan", "bget_nobuf",
                               "panic_bget"}
                /\ pc[p] = "bget_nobuf" => pc'[p] = "panic_bget" ]_vars

BoundedCapacityWitness ==
  \E p \in Procs :
    /\ pc[p] = "panic_bget"
    /\ Exhausted
    /\ \A b \in Bufs : Holders(b) # {}
    /\ \A b1 \in Bufs : \A b2 \in Bufs \ {b1} : ~SameId(b1, b2)

\* C6: a buffer returned by bget and not yet released is locked by the
\* caller, has refcnt >= 1 and carries the identity that was asked for.
AcquirePost ==
  \A p \in Procs : \A g \in got[p] :
    /\ holdingsleep(g.b, p)
    /\ refcnt[g.b] >= 1
    /\ dev[g.b] = g.dev
    /\ blockno[g.b] = g.blockno

AcquirePostWitness ==
  \E p \in Procs : \E q \in Procs \ {p} :
    /\ pc[p] = "idle"
    /\ Cardinality(got[p]) = 2
    /\ pc[q] \in {"bget_scan", "steal_scan"}

\* C7: a buffer receives at most one device read between two bufinit, it is
\* valid exactly when it has received that read, and a process enters the
\* device read only for a buffer that is not valid.
ReadOnce ==
  /\ \A b \in Bufs : nreads[b] <= 1 /\ (valid[b] <=> nreads[b] = 1)
  /\ \A p \in Procs : pc[p] = "diskr" => ~valid[vb[p]]

ReadOnceWitness ==
  \E p \in Procs : \E q \in Procs \ {p} :
    /\ pc[p] = "bread_valid"
    /\ valid[vb[p]]
    /\ nreads[vb[p]] = 1
    /\ pc[q] = "sleep"
    /\ vb[q] = vb[p]

Pinned(b) == \E p \in Procs : pins[p][b] > 0

BucketOf(b) == {j \in Buckets : b \in Members(j)}

InPin == {"bpin_acq", "bpin_inc", "bunpin_acq", "bunpin_dec"}

\* C8: a pinned buffer has refcnt > 0, is no process's victim, keeps its
\* dev, blockno and bucket in every step, and is the buffer that every bget
\* of its identity waits for or has been returned; the steps of bpin and
\* bunpin leave every sleeplock as it is.
PinResident ==
  [][ /\ \A b \in Bufs : Pinned(b) =>
           /\ refcnt[b] > 0
           /\ dev'[b] = dev[b] /\ blockno'[b] = blockno[b]
           /\ BucketOf(b)' = BucketOf(b)
           /\ \A q \in Procs :
                /\ pc[q] \in {"bget_evict", "steal_take"} => vb[q] # b
                /\ (pc[q] = "sleep" /\ Asking(q, dev[b], blockno[b]))
                     => vb[q] = b
                /\ \A g \in got[q] :
                     (g.dev = dev[b] /\ g.blockno = blockno[b]) => g.b = b
      /\ \A p \in Procs :
           (Stepped(p) /\ (pc[p] \in InPin \/ pc'[p] \in InPin))
             => UNCHANGED lockvars ]_vars

PinResidentWitness ==
  \E p \in Procs : \E q \in Procs \ {p}, b \in Bufs :
    /\ pins[p][b] > 0
    /\ Holders(b) = {q}
    /\ valid[b]

\* C9 as stated: bget panics only in a state where every buffer has
\* refcnt > 0.
FailsOnlyWhenExhausted ==
  [][ \A p \in Procs :
        (pc[p] = "bget_nobuf" /\ pc'[p] = "panic_bget") => Exhausted ]_vars

\* C9: bget gives up on a bucket only when, at that scan and under that
\* bucket's lock, no member of the bucket has refcnt 0, and it panics only
\* after the last bucket, with no member of its own bucket at refcnt 0.
FailsAfterBusyScans ==
  [][ \A p \in Procs :
        /\ (pc[p] = "bget_scan" /\ pc'[p] \in {"steal_acq", "bget_nobuf"})
             => \A b \in Members(bid[p]) : refcnt[b] > 0
        /\ (pc[p] = "steal_scan" /\ pc'[p] \in {"steal_acq", "bget_nobuf"})
             => \A b \in Members(si[p]) : refcnt[b] > 0
        /\ (pc[p] = "bget_nobuf" /\ pc'[p] = "panic_bget")
             => /\ si[p] >= NBUCKET
                /\ \A b \in Members(bid[p]) : refcnt[b] > 0 ]_vars

FailsAfterBusyScansWitness ==
  \E p \in Procs, b \in Bufs :
    /\ pc[p] = "bget_nobuf"
    /\ refcnt[b] = 0
    /\ b \notin Members(bid[p])

\* C10: a bwrite or brelse on a buffer whose sleeplock the caller does not
\* hold goes to panic, starts no device write and changes no buffer field,
\* no sleeplock, no spinlock and no bucket.
PreconditionChecked ==
  [][ \A p \in Procs :
        (/\ pc[p] = "idle"
         /\ pc'[p] \in {"diskw", "panic_bwrite", "brelse_acq", "panic_brelse"}
         /\ ~holdingsleep(vb'[p], p))
        => /\ pc'[p] \in {"panic_bwrite", "panic_brelse"}
           /\ UNCHANGED <<bufvars, lockvars, lks, buckets, got>> ]_vars

PreconditionCheckedWitness ==
  \E p \in Procs : \E q \in Procs \ {p} :
    /\ pc[p] = "panic_bwrite"
    /\ pc[q] = "panic_brelse"
    /\ locked[vb[q]]

Panics == {"panic_bget", "panic_bwrite", "panic_brelse"}

\* C11 as stated: a bpin or bunpin on a buffer whose sleeplock the caller
\* does not hold goes to panic and leaves refcnt as it is.
PinPreconditionChecked ==
  [][ \A p \in Procs :
        (/\ pc[p] = "idle"
         /\ pc'[p] \in {"bpin_acq", "bunpin_acq"}
         /\ ~holdingsleep(vb'[p], p))
        => FALSE ]_vars

LocksHeld(p) == {j \in Buckets : lks[j] = p}

\* C12 as stated: a process holds at most one bucket lock.
OneShardLock == \A p \in Procs : Cardinality(LocksHeld(p)) <= 1

Blocking == {"sleep", "bread_valid", "diskr", "diskw"}

\* C13: a process that waits in acquiresleep, has just taken the sleeplock
\* or is in a device read or write holds no bucket lock, and neither does a
\* process that is outside the interface or has panicked.
NoShardLockWhileBlocking ==
  \A p \in Procs :
    pc[p] \in Blocking \cup Panics \cup {"idle"} => LocksHeld(p) = {}

NoShardLockWhileBlockingWitness ==
  \E p \in Procs : \E q \in Procs \ {p} :
    /\ pc[p] = "sleep"
    /\ via[p] = "steal"
    /\ pc[q] \in {"steal_scan", "brelse_dec", "bpin_inc"}
    /\ LocksHeld(q) # {}

\* C14 as stated: every step that takes a refcnt from a positive value to 0
\* sets the buffer's lastuse to ticks.
StampOnZero ==
  [][ \A b \in Bufs :
        (refcnt[b] > 0 /\ refcnt'[b] = 0) => lastuse'[b] = ticks ]_vars

Free(j) == {b \in Members(j) : refcnt[b] = 0}

\* b is a least recently released buffer among the free members of bucket j
Oldest(b, j) == b \in Free(j) /\ \A c \in Free(j) : lastuse[b] <= lastuse[c]

\* C15: a bget that misses in its bucket takes its victim there whenever the
\* bucket has a member with refcnt 0, and otherwise takes it in the first
\* bucket of the steal loop whose scan meets such a member; the victim is a
\* member with refcnt 0 of the scanned bucket and none of that bucket's other
\* members with refcnt 0 has a smaller lastuse.
LeastRecentVictim ==
  [][ \A p \in Procs :
        /\ (/\ pc[p] = "bget_scan"
            /\ Stepped(p)
            /\ Lookup(buckets[bid[p]], 1, rdev[p], rblk[p]) = 0)
           => IF Free(bid[p]) # {}
              THEN pc'[p] = "bget_evict" /\ Oldest(vb'[p], bid[p])
              ELSE pc'[p] \in {"steal_acq", "bget_nobuf"}
        /\ (pc[p] = "steal_scan" /\ Stepped(p))
           => IF Free(si[p]) # {}
              THEN pc'[p] = "steal_take" /\ Oldest(vb'[p], si[p])
              ELSE pc'[p] \in {"steal_acq", "bget_nobuf"}
        /\ pc[p] = "bget_evict" => Oldest(vb[p], bid[p])
        /\ pc[p] = "steal_take" => Oldest(vb[p], si[p]) ]_vars

LeastRecentVictimWitness ==
  \E p \in Procs, b \in Bufs :
    /\ pc[p] = "steal_take"
    /\ b \in Free(si[p])
    /\ lastuse[b] > lastuse[vb[p]]

HasId(b, p) == dev[b] = rdev[p] /\ blockno[b] = rblk[p]

\* C16 as stated: a bget that returns through the steal path returns a
\* buffer that is a member of the target bucket only, has the identity asked
\* for, is not valid and has refcnt 1.
StolenOnReturn ==
  [][ \A p \in Procs :
        (pc[p] = "sleep" /\ via[p] = "steal" /\ Stepped(p))
        => /\ BucketOf(vb[p])' = {bid[p]}
           /\ HasId(vb[p], p)'
           /\ ~valid'[vb[p]]
           /\ refcnt'[vb[p]] = 1 ]_vars

\* C16: the scan of a bucket of the steal loop that meets a member with
\* refcnt 0 takes a victim; the step that takes it removes it from that
\* bucket and gives it the identity asked for, valid = 0 and refcnt = 1; it
\* is so, and in no bucket, until the step that links it into the target
\* bucket; both steps leave every other buffer in its bucket; on return the
\* buffer is a member of the target bucket only, with the identity asked
\* for and refcnt >= 1.
StealMoves ==
  [][ \A p \in Procs :
        /\ (pc[p] = "steal_scan" /\ Stepped(p) /\ Free(si[p]) # {})
           => pc'[p] = "steal_take"
        /\ (pc[p] = "steal_take" /\ Stepped(p))
           => /\ vb[p] \in Members(si[p])
              /\ \A j \in Buckets : Members(j)' = Members(j) \ {vb[p]}
        /\ pc[p] = "steal_attach"
           => /\ BucketOf(vb[p]) = {}
              /\ HasId(vb[p], p)
              /\ ~valid[vb[p]]
              /\ refcnt[vb[p]] = 1
        /\ (pc[p] = "steal_attach" /\ Stepped(p))
           => /\ BucketOf(vb[p])' = {bid[p]}
              /\ \A b \in Bufs \ {vb[p]} : BucketOf(b)' = BucketOf(b)
              /\ UNCHANGED bufvars
        /\ (pc[p] = "sleep" /\ via[p] = "steal")
           => /\ BucketOf(vb[p]) = {bid[p]}
              /\ HasId(vb[p], p)
              /\ refcnt[vb[p]] >= 1
        /\ (pc[p] = "sleep" /\ via[p] = "steal" /\ Stepped(p))
           => /\ BucketOf(vb[p])' = {bid[p]}
              /\ HasId(vb[p], p)'
              /\ refcnt'[vb[p]] >= 1 ]_vars

StealMovesWitness ==
  \E p \in Procs :
    /\ pc[p] = "bread_valid"
    /\ via[p] = "steal"
    /\ valid[vb[p]]
    /\ myhash(rblk[p]) = 1
    /\ Members(0) # {}

\* the buffers that a process has unlinked and not yet linked again
InFlight == {vb[p] : p \in {q \in Procs : pc[q] = "steal_attach"}}

\* C17: no buffer is a member of two buckets or twice in a bucket's list,
\* and the buffers that are in no bucket are exactly those that a bget has
\* unlinked and not yet linked into its own bucket; when no bget is there,
\* the buckets hold the NBUF buffers of binit.
MembershipPartition ==
  /\ \A b \in Bufs : Cardinality(BucketOf(b)) <= 1
  /\ \A j \in Buckets : Len(buckets[j]) = Cardinality(Members(j))
  /\ \A j \in Buckets : Members(j) \subseteq Bufs
  /\ {b \in Bufs : BucketOf(b) = {}} = InFlight
  /\ InFlight = {} => Cardinality(UNION {Members(j) : j \in Buckets}) = NBUF

MembershipPartitionWitness ==
  \E p \in Procs :
    /\ pc[p] = "steal_attach"
    /\ bid[p] = 0
    /\ \E j \in Buckets : Members(j) # {}

\* C18 as stated: the hit path takes a buffer only if it is valid.
HitRequiresValid ==
  [][ \A p \in Procs :
        (pc[p] = "bget_scan" /\ via'[p] = "hit") => valid[vb'[p]] ]_vars

\* the members of p's bucket that carry the identity p asks for
Matching(p) == {b \in Members(bid[p]) : HasId(b, p)}

Pos(b, j) == CHOOSE k \in 1..Len(buckets[j]) : buckets[j][k] = b

\* C18: the scan of bget takes the hit path exactly when a member of the
\* bucket carries the identity asked for, whatever its valid flag; the
\* buffer it takes is the first such member of the list, its refcnt grows by
\* one and nothing else of it changes.
HitOnIdentity ==
  [][ \A p \in Procs :
        (pc[p] = "bget_scan" /\ Stepped(p))
        => IF Matching(p) # {}
           THEN /\ pc'[p] = "sleep"
                /\ via'[p] = "hit"
                /\ vb'[p] \in Matching(p)
                /\ \A c \in Matching(p) :
                     Pos(vb'[p], bid[p]) <= Pos(c, bid[p])
                /\ refcnt'[vb'[p]] = refcnt[vb'[p]] + 1
                /\ UNCHANGED <<dev, blockno, valid, lastuse, buckets>>
           ELSE /\ pc'[p] # "sleep"
                /\ via'[p] # "hit" ]_vars

HitOnIdentityWitness ==
  \E p \in Procs : \E q \in Procs \ {p} :
    /\ pc[p] = "sleep"
    /\ via[p] = "hit"
    /\ ~valid[vb[p]]
    /\ pc[q] = "diskr"
    /\ vb[q] = vb[p]

InRefOp == {"brelse_acq", "brelse_dec", "bpin_acq", "bpin_inc", "bunpin_acq",
            "bunpin_dec"}

\* C19: every member of bucket j has blockno % NBUCKET = j; the bucket that
\* brelse, bpin and bunpin lock is the one their buffer is a member of; and
\* every step that changes a refcnt is taken by a process that holds the
\* lock of the bucket the buffer is a member of.
OwningShardLocked ==
  [][ /\ \A j \in Buckets : \A b \in Members(j) : blockno[b] % NBUCKET = j
      /\ \A p \in Procs : pc[p] \in InRefOp => BucketOf(vb[p]) = {bid[p]}
      /\ \A b \in Bufs :
           refcnt'[b] # refcnt[b]
           => \E p \in Procs : \E j \in BucketOf(b) :
                Stepped(p) /\ lks[j] = p ]_vars

OwningShardLockedWitness ==
  \E p \in Procs :
    /\ pc[p] = "brelse_dec"
    /\ bid[p] = 1
    /\ vb[p] \in Members(1)
    /\ refcnt[vb[p]] = 2

\* the references p has on b: one while it is between the refcnt++ or
\* bufinit of bget and the refcnt-- of brelse, and one for each pin
HoldsRef(p, b) ==
  \/ \E g \in got[p] : g.b = b
  \/ pc[p] \in {"sleep", "steal_attach", "brelse_acq", "brelse_dec"} /\ vb[p] = b

Refs(p, b) == pins[p][b] + (IF HoldsRef(p, b) THEN 1 ELSE 0)

RECURSIVE SumRefs(_, _)
SumRefs(S, b) ==
  IF S = {} THEN 0
  ELSE LET p == CHOOSE x \in S : TRUE IN Refs(p, b) + SumRefs(S \ {p}, b)

\* C20: the refcnt of a buffer is the number of bget calls that took it and
\* whose brelse has not yet decremented it, plus the number of pins not yet
\* unpinned; it is never negative.
RefAccounting ==
  \A b \in Bufs : refcnt[b] = SumRefs(Procs, b) /\ refcnt[b] >= 0

RefAccountingWitness ==
  \E b \in Bufs : \E p \in Procs :
    /\ refcnt[b] = 3
    /\ pins[p][b] = 1
    /\ \E q \in Procs \ {p} : pc[q] = "sleep" /\ vb[q] = b
====
